---- MODULE Spec2Model ----
(***************************************************************************)
(* A model of classify_mails.py: the brand matcher, the amount, date and   *)
(* frequency extractors, the receipt/type classifier, the negation         *)
(* confidence scorer and the process_mails loop.                           *)
(*                                                                         *)
(* Texts are TLA+ strings.  Confidences and brand scores are fixed-point   *)
(* integers: confidences in thousandths (0.45 is 450), brand weights and   *)
(* scores in hundredths (0.35 is 35).                                      *)
(***************************************************************************)
EXTENDS Integers, Sequences, FiniteSets, TLC

VARIABLES
    BRANDS,     \* the brand registry, in the iteration order of BRANDS.items()
    call,       \* the function applied and its arguments (pure-function runs)
    ret,        \* what that function returned, or the exception it raised
    mails,      \* process_mails: the batch read from output.json
    idx,        \* process_mails: index into mails of the mail being processed
    pc,         \* process_mails: the position in the loop body
    mail,       \* process_mails: the dict of the mail being processed
    loc,        \* process_mails: the local variables of the loop body
    writes,     \* process_mails: the assignments mail[key] = ..., in order
    output,     \* process_mails: the list `output`
    written     \* process_mails: what was dumped to categorized_mails.json, if anything

vars == <<BRANDS, call, ret, mails, idx, pc, mail, loc, writes, output, written>>

None == "<None>"

(***************************************************************************)
(* Strings                                                                 *)
(***************************************************************************)
Digits == {"0", "1", "2", "3", "4", "5", "6", "7", "8", "9"}

LowerLetters ==
    {"a", "b", "c", "d", "e", "f", "g", "h", "i", "j", "k", "l", "m",
     "n", "o", "p", "q", "r", "s", "t", "u", "v", "w", "x", "y", "z"}

UpperOf ==
    [c \in LowerLetters |->
        CASE c = "a" -> "A" [] c = "b" -> "B" [] c = "c" -> "C" [] c = "d" -> "D"
          [] c = "e" -> "E" [] c = "f" -> "F" [] c = "g" -> "G" [] c = "h" -> "H"
          [] c = "i" -> "I" [] c = "j" -> "J" [] c = "k" -> "K" [] c = "l" -> "L"
          [] c = "m" -> "M" [] c = "n" -> "N" [] c = "o" -> "O" [] c = "p" -> "P"
          [] c = "q" -> "Q" [] c = "r" -> "R" [] c = "s" -> "S" [] c = "t" -> "T"
          [] c = "u" -> "U" [] c = "v" -> "V" [] c = "w" -> "W" [] c = "x" -> "X"
          [] c = "y" -> "Y" [] c = "z" -> "Z"]

UpperLetters == {UpperOf[c] : c \in LowerLetters}

\* str.lower() of one character
LowerChar(c) ==
    IF c \in UpperLetters THEN CHOOSE l \in LowerLetters : UpperOf[l] = c ELSE c

RECURSIVE Lower(_)
\* str.lower(), one half of the string after the other
Lower(s) ==
    IF Len(s) = 0 THEN ""
    ELSE IF Len(s) = 1 THEN LowerChar(s)
    ELSE Lower(SubSeq(s, 1, Len(s) \div 2)) \o Lower(SubSeq(s, Len(s) \div 2 + 1, Len(s)))

At(s, i) == IF i >= 1 /\ i <= Len(s) THEN SubSeq(s, i, i) ELSE ""

\* the tail of s from position i
From(s, i) == SubSeq(s, i, Len(s))

StartsAt(s, i, k) ==
    i + Len(k) - 1 <= Len(s) /\ SubSeq(s, i, i + Len(k) - 1) = k

\* the Python expression  k in s
Contains(s, k) == \E i \in 1..(Len(s) - Len(k) + 1) : StartsAt(s, i, k)

\* any(k in s for k in ks)
ContainsAny(s, ks) == \E j \in 1..Len(ks) : Contains(s, ks[j])

\* the least element of a non-empty set of integers
Least(S) == CHOOSE n \in S : \A m \in S : n <= m

\* the first position >= i of s at which k starts, 0 when there is none
IndexOf(s, k, i) ==
    LET hits == {j \in i..(Len(s) - Len(k) + 1) : StartsAt(s, j, k)}
    IN  IF hits = {} THEN 0 ELSE Least(hits)

\* str.replace(old, new): the occurrences left to right, without overlap
RECURSIVE Replace(_, _, _)
Replace(s, old, new) ==
    LET i == IndexOf(s, old, 1)
    IN  IF i = 0 THEN s
        ELSE SubSeq(s, 1, i - 1) \o new \o Replace(From(s, i + Len(old)), old, new)

Whitespace == {" ", "\n", "\t", "\r"}

\* a regex word character, \w
IsWord(c) == c \in Digits \/ c \in LowerLetters \/ c \in UpperLetters \/ c = "_"

\* str.strip()
Strip(s) ==
    LET solid == {i \in 1..Len(s) : At(s, i) \notin Whitespace}
    IN  IF solid = {} THEN ""
        ELSE SubSeq(s, Least(solid), CHOOSE n \in solid : \A m \in solid : m <= n)

(***************************************************************************)
(* Regular expressions.  A pattern is a tree; M(r, s, i) is the sequence   *)
(* of positions at which a match of r that starts at position i of s can   *)
(* end, in the order in which the backtracking matcher of `re` tries them  *)
(* (greedy repetition first, alternatives left to right), so that its head *)
(* is the match `re` reports.  Under re.IGNORECASE the patterns, which are *)
(* lower case, are applied to the lower-cased string.                      *)
(***************************************************************************)
Lit(str) == [op |-> "lit", s |-> str]
Set(chars) == [op |-> "set", cs |-> chars]
NotSet(chars) == [op |-> "nset", cs |-> chars]
Cat(rs) == [op |-> "cat", rs |-> rs]
Alt(rs) == [op |-> "alt", rs |-> rs]
Rep(r, lo, hi) == [op |-> "rep", r |-> r, min |-> lo, max |-> hi]
Star(r) == Rep(r, 0, -1)
Plus(r) == Rep(r, 1, -1)
Opt(r) == Rep(r, 0, 1)
WB == [op |-> "wb"]
Empty == Cat(<<>>)
\* (?<=[chars]) and (?=[chars])
Behind(chars) == [op |-> "behind", cs |-> chars]
Ahead(chars) == [op |-> "ahead", cs |-> chars]

RECURSIVE M(_, _, _), MCat(_, _, _, _), MCatEach(_, _, _, _), MAlt(_, _, _, _)
RECURSIVE MRep(_, _, _, _, _), MRepEach(_, _, _, _, _)

\* the halves of a sequence of at least two elements
FirstHalf(q) == SubSeq(q, 1, Len(q) \div 2)
SecondHalf(q) == SubSeq(q, Len(q) \div 2 + 1, Len(q))

\* whether the character of s at position i is in the class r
InClass(r, s, i) ==
    /\ i <= Len(s)
    /\ IF r.op = "set" THEN At(s, i) \in r.cs ELSE At(s, i) \notin r.cs

\* the repetition of a character class: every length from the longest run that
\* the bounds allow down to lo, longest first
ClassRep(r, lo, hi, s, i) ==
    LET stops == {j \in i..(Len(s) + 1) : ~InClass(r, s, j)}
        run == Least(stops) - i
        most == IF hi < 0 \/ run < hi THEN run ELSE hi
        least == IF lo < 0 THEN 0 ELSE lo
    IN  IF most < least THEN <<>>
        ELSE [n \in 1..(most - least + 1) |-> i + most - n + 1]

M(r, s, i) ==
    CASE r.op = "lit" -> IF StartsAt(s, i, r.s) THEN <<i + Len(r.s)>> ELSE <<>>
      [] r.op = "set" -> IF At(s, i) \in r.cs THEN <<i + 1>> ELSE <<>>
      [] r.op = "nset" -> IF i <= Len(s) /\ At(s, i) \notin r.cs THEN <<i + 1>> ELSE <<>>
      [] r.op = "cat" -> MCat(r.rs, 1, s, i)
      [] r.op = "alt" -> MAlt(r.rs, 1, s, i)
      [] r.op = "rep" -> MRep(r.r, r.min, r.max, s, i)
      [] r.op = "wb" -> IF IsWord(At(s, i - 1)) # IsWord(At(s, i)) THEN <<i>> ELSE <<>>
      [] r.op = "behind" -> IF At(s, i - 1) \in r.cs THEN <<i>> ELSE <<>>
      [] r.op = "ahead" -> IF At(s, i) \in r.cs THEN <<i>> ELSE <<>>

MCat(rs, k, s, i) ==
    IF k > Len(rs) THEN <<i>> ELSE MCatEach(rs, k, s, M(rs[k], s, i))

MCatEach(rs, k, s, ends) ==
    IF ends = <<>> THEN <<>>
    ELSE IF Len(ends) = 1 THEN MCat(rs, k + 1, s, ends[1])
    ELSE MCatEach(rs, k, s, FirstHalf(ends)) \o MCatEach(rs, k, s, SecondHalf(ends))

MAlt(rs, k, s, i) ==
    IF k > Len(rs) THEN <<>> ELSE M(rs[k], s, i) \o MAlt(rs, k + 1, s, i)

MRep(r, lo, hi, s, i) ==
    IF r.op \in {"set", "nset"} THEN ClassRep(r, lo, hi, s, i)
    ELSE (IF hi = 0 THEN <<>>
          ELSE MRepEach(r, lo, hi, s, SelectSeq(M(r, s, i), LAMBDA e : e > i)))
         \o (IF lo <= 0 THEN <<i>> ELSE <<>>)

MRepEach(r, lo, hi, s, ends) ==
    IF ends = <<>> THEN <<>>
    ELSE IF Len(ends) = 1
    THEN MRep(r, lo - 1, IF hi < 0 THEN hi ELSE hi - 1, s, ends[1])
    ELSE MRepEach(r, lo, hi, s, FirstHalf(ends)) \o MRepEach(r, lo, hi, s, SecondHalf(ends))

NoMatch == <<>>

RECURSIVE FirstStart(_, _, _, _)
\* the least position in lo..hi at which r matches s, 0 when there is none
FirstStart(r, s, lo, hi) ==
    IF lo > hi THEN 0
    ELSE IF lo = hi THEN (IF M(r, s, lo) # <<>> THEN lo ELSE 0)
    ELSE LET mid == (lo + hi) \div 2
             left == FirstStart(r, s, lo, mid)
         IN  IF left # 0 THEN left ELSE FirstStart(r, s, mid + 1, hi)

\* re.search from position i on: <<start, end>> of the leftmost match, or NoMatch
SearchFrom(r, s, i) ==
    LET start == FirstStart(r, s, i, Len(s) + 1)
    IN  IF start = 0 THEN NoMatch ELSE <<start, Head(M(r, s, start))>>

\* bool(re.search(r, s))
Search(r, s) == SearchFrom(r, s, 1) # NoMatch

\* match.group(0) of re.search(r, s, re.IGNORECASE), a match being known to exist
Group0(r, s) ==
    LET m == SearchFrom(r, Lower(s), 1) IN SubSeq(s, m[1], m[2] - 1)

RECURSIVE SubFrom(_, _, _, _)
\* re.sub(r, repl, s) from position i on, for a constant replacement and a
\* pattern that matches no empty string
SubFrom(r, repl, s, i) ==
    LET m == SearchFrom(r, s, i)
    IN  IF m = NoMatch THEN From(s, i)
        ELSE SubSeq(s, i, m[1] - 1) \o repl \o SubFrom(r, repl, s, m[2])

RECURSIVE First3b(_, _, _, _), First3a(_, _, _, _)
\* the first <<e1, e2, e3>>, in backtracking order, such that pre matches
\* s from i to e1, grp from e1 to e2 and post from e2 to e3
First3b(post, s, e1, e2s) ==
    IF e2s = <<>> THEN NoMatch
    ELSE IF Len(e2s) = 1
    THEN LET e3s == M(post, s, e2s[1])
         IN  IF e3s # <<>> THEN <<e1, e2s[1], Head(e3s)>> ELSE NoMatch
    ELSE LET m == First3b(post, s, e1, FirstHalf(e2s))
         IN  IF m # NoMatch THEN m ELSE First3b(post, s, e1, SecondHalf(e2s))

First3a(grp, post, s, e1s) ==
    IF e1s = <<>> THEN NoMatch
    ELSE IF Len(e1s) = 1 THEN First3b(post, s, e1s[1], M(grp, s, e1s[1]))
    ELSE LET m == First3a(grp, post, s, FirstHalf(e1s))
         IN  IF m # NoMatch THEN m ELSE First3a(grp, post, s, SecondHalf(e1s))

\* pre(grp)post as one pattern
Whole(pre, grp, post) == Cat(<<pre, grp, post>>)

RECURSIVE FindAllFrom(_, _, _, _, _)
\* re.findall of the pattern  pre(grp)post  (one capturing group) from i on:
\* the text of the group in each successive non-overlapping match
FindAllFrom(pre, grp, post, s, i) ==
    LET start == FirstStart(Whole(pre, grp, post), s, i, Len(s) + 1)
        m == First3a(grp, post, s, M(pre, s, start))
    IN  IF start = 0 THEN <<>>
        ELSE <<SubSeq(s, m[1], m[2] - 1)>>
             \o FindAllFrom(pre, grp, post, s, IF m[3] > start THEN m[3] ELSE start + 1)

(***************************************************************************)
(* The patterns of the source                                              *)
(***************************************************************************)
Digit == Set(Digits)
Space == Set(Whitespace)
Letter == Set(LowerLetters)

\* [0-9]{1,3}(?:[, ]?\d{2,3})*(?:\.\d{1,2})?
AmountNumber ==
    Cat(<<Rep(Digit, 1, 3),
          Star(Cat(<<Opt(Set({",", " "})), Rep(Digit, 2, 3)>>)),
          Opt(Cat(<<Lit("."), Rep(Digit, 1, 2)>>))>>)

\* (?:rs\.?|inr|<rupee sign>): the rupee sign is outside the alphabet of the model
Rupee == Alt(<<Cat(<<Lit("rs"), Opt(Lit("."))>>), Lit("inr")>>)

\* (?:usd|us\$|\$)
Dollar == Alt(<<Lit("usd"), Lit("us$"), Lit("$")>>)

\* AMOUNT_PATTERNS of extract_amount, each as <<before, group, after>>
AMOUNT_PATTERNS ==
    << <<Cat(<<Rupee, Star(Space)>>), AmountNumber, Empty>>,
       <<Empty, AmountNumber, Cat(<<Star(Space), Rupee>>)>>,
       <<Cat(<<Dollar, Star(Space)>>), AmountNumber, Empty>>,
       <<Empty, AmountNumber, Cat(<<Star(Space), Dollar>>)>>,
       <<Cat(<<WB, Lit("total"), Star(Set({":", " "}))>>), AmountNumber, WB>>,
       <<Cat(<<WB, Lit("amount"),
               Opt(Alt(<<Lit(" paid"), Lit(" due"), Lit(" charged")>>)),
               Star(Set({":", " "}))>>),
         AmountNumber, Empty>> >>

\* (jan|feb|mar|apr|may|jun|jul|aug|sep|oct|nov|dec)
Month ==
    Alt(<<Lit("jan"), Lit("feb"), Lit("mar"), Lit("apr"), Lit("may"), Lit("jun"),
          Lit("jul"), Lit("aug"), Lit("sep"), Lit("oct"), Lit("nov"), Lit("dec")>>)

DateSep == Set({"-", "/"})

\* \b\d{1,2}[-/]\d{1,2}[-/]\d{2,4}\b
NumericDate ==
    Cat(<<WB, Rep(Digit, 1, 2), DateSep, Rep(Digit, 1, 2), DateSep, Rep(Digit, 2, 4), WB>>)

DATE_REGEX ==
    Alt(<<Cat(<<WB, Rep(Digit, 1, 2), Opt(Set({"-", "/", " "})), Month, Star(Letter),
                Opt(Set({"-", "/", " "})), Rep(Digit, 2, 4), WB>>),
          Cat(<<WB, Month, Star(Letter), Plus(Space), Rep(Digit, 1, 2), Lit(","),
                Star(Space), Rep(Digit, 4, 4), WB>>),
          Cat(<<WB, Rep(Digit, 1, 2), Plus(Space), Month, Star(Letter), Plus(Space),
                Rep(Digit, 4, 4), WB>>),
          Cat(<<WB, Rep(Digit, 4, 4), DateSep, Rep(Digit, 2, 2), DateSep,
                Rep(Digit, 2, 2), WB>>),
          NumericDate>>)

ID_REGEX ==
    Alt(<<Lit("order id"), Lit("transaction id"), Lit("txn id"), Lit("utr"),
          Lit("folio"), Lit("invoice number"), Lit("invoice no")>>)

RECEIPT_META == <<"invoice", "receipt", "payment", "purchase", "order", "transaction">>

RECURRING_KEYWORDS ==
    <<"subscription", "renewal", "auto-debit", "recurring", "billing cycle",
      "renews on", "auto-renew">>

Word(w) == Cat(<<WB, Lit(w), WB>>)
Slash(w) == Cat(<<Lit("/"), Star(Space), Lit(w), WB>>)

\* FREQ_PATTERNS, in the order of the dict
FREQ_PATTERNS ==
    << <<"weekly",
         <<Word("weekly"), Word("every week"), Word("per week"), Word("renews weekly"),
           Word("7 days"), Cat(<<Lit("/"), Star(Space), Lit("week")>>), Word("wk")>> >>,
       <<"monthly",
         <<Word("monthly"), Word("every month"), Word("per month"),
           Word("billed monthly"), Word("renews monthly"), Slash("mo"), Slash("mon"),
           Word("30 days"), Word("every 30 days")>> >>,
       <<"yearly",
         <<Word("yearly"), Word("annual"), Word("annually"), Word("per year"),
           Word("billed yearly"), Word("renews yearly"), Slash("yr"), Slash("year"),
           Word("12 months")>> >>,
       <<"quarterly",
         <<Word("quarterly"), Word("every 3 months"), Word("3 months")>> >>,
       <<"semi_annual",
         <<Cat(<<WB, Lit("semi"), Opt(Set({"-", " "})), Lit("annual"), WB>>),
           Word("every 6 months"), Word("6 months")>> >> >>

(***************************************************************************)
(* Amounts.  The float a candidate is parsed to is kept exactly, as its    *)
(* integer part and hundredths: the patterns admit at most two decimals.   *)
(***************************************************************************)
\* str.isdigit()
IsDigitStr(s) == Len(s) > 0 /\ \A i \in 1..Len(s) : At(s, i) \in Digits

DigitVal(c) == CHOOSE d \in 0..9 : ToString(d) = c

RECURSIVE ToInt(_)
\* int() of a string of digits
ToInt(s) ==
    IF Len(s) = 0 THEN 0 ELSE 10 * ToInt(SubSeq(s, 1, Len(s) - 1)) + DigitVal(At(s, Len(s)))

\* str.replace(old, "", 1)
RemoveFirst(s, old) ==
    LET i == IndexOf(s, old, 1)
    IN  IF i = 0 THEN s ELSE SubSeq(s, 1, i - 1) \o From(s, i + Len(old))

\* float(amt), amt being digits with at most one "." (what the isdigit test admits):
\* [int, frac] with frac in hundredths.  An integer part of more than 9 digits is
\* kept as 10^9, which is above every limit it is compared with.
ToFloat(amt) ==
    LET dot == IndexOf(amt, ".", 1)
        ip == IF dot = 0 THEN amt ELSE SubSeq(amt, 1, dot - 1)
        fp == IF dot = 0 THEN "" ELSE From(amt, dot + 1)
        f2 == SubSeq(fp \o "00", 1, 2)
    IN  [int |-> IF Len(ip) > 9 THEN 1000000000 ELSE ToInt(ip),
         frac |-> ToInt(f2)]

\* str(x) of a float x: at least one decimal, no trailing zeros after it
FloatStr(x) ==
    ToString(x.int) \o "." \o
        (IF x.frac % 10 = 0 THEN ToString(x.frac \div 10)
         ELSE IF x.frac < 10 THEN "0" \o ToString(x.frac)
         ELSE ToString(x.frac))

MinAmount == 10
MaxAmount == 100000000

\* is_valid_amount, for a string that float() accepts
is_valid_amount(amt) ==
    LET x == ToFloat(amt)
    IN  /\ ~(x.int < MinAmount)
        /\ ~(x.int > MaxAmount \/ (x.int = MaxAmount /\ x.frac > 0))

\* normalize_html_amounts
normalize_html_amounts(html) ==
    LET clean == SubFrom(Cat(<<Lit("<"), Plus(NotSet({">"})), Lit(">")>>), " ", html, 1)
    IN  SubFrom(Cat(<<Behind(Digits), Plus(Space), Ahead(Digits)>>), "", clean, 1)

\* the clean-up of one regex hit in extract_amount
CleanAmount(match) ==
    Strip(Replace(Replace(Replace(Replace(Lower(match), ",", ""), "$", ""), "us$", ""),
                  "usd", ""))

RECURSIVE KeepValid(_, _)
\* the hits that pass the isdigit and is_valid_amount tests, as (source, float)
KeepValid(source, hits) ==
    IF hits = <<>> THEN <<>>
    ELSE LET amt == CleanAmount(Head(hits))
         IN  (IF IsDigitStr(RemoveFirst(amt, ".")) /\ is_valid_amount(amt)
              THEN << <<source, ToFloat(amt)>> >> ELSE <<>>)
             \o KeepValid(source, Tail(hits))

RECURSIVE Candidates(_, _, _)
\* the candidates one pass over AMOUNT_PATTERNS (from pattern k on) finds in s
Candidates(source, s, k) ==
    IF k > Len(AMOUNT_PATTERNS) THEN <<>>
    ELSE KeepValid(source,
                   FindAllFrom(AMOUNT_PATTERNS[k][1], AMOUNT_PATTERNS[k][2],
                               AMOUNT_PATTERNS[k][3], Lower(s), 1))
         \o Candidates(source, s, k + 1)

AmountSubjectWords == <<"invoice", "receipt", "order", "payment">>
AmountTextWords == <<"total", "amount", "paid", "charged", "transaction">>

\* the text that the discount test of extract_amount looks for: f"{amt}%"
PercentText(amt) == FloatStr(amt) \o "%"

\* the score extract_amount gives one candidate, in thousandths
AmountScore(cand, text_lower, subject_lower) ==
    (IF cand[1] = "html" THEN 400 ELSE 300)
    + (IF ContainsAny(subject_lower, AmountSubjectWords) THEN 300 ELSE 0)
    + (IF ContainsAny(text_lower, AmountTextWords) THEN 200 ELSE 0)
    - (IF Contains(text_lower, PercentText(cand[2])) THEN 500 ELSE 0)

\* max(scored, key=score): the position of the first candidate of maximal score
FirstMax(scores) ==
    CHOOSE i \in 1..Len(scores) :
        /\ \A j \in 1..Len(scores) : scores[j] <= scores[i]
        /\ \A j \in 1..(i - 1) : scores[j] < scores[i]

AmountThreshold == 450

Min(a, b) == IF a < b THEN a ELSE b

\* lines 399-416: every candidate with its score
Scored(candidates, text_lower, subject_lower) ==
    [i \in 1..Len(candidates) |->
        [cand |-> candidates[i],
         score |-> AmountScore(candidates[i], text_lower, subject_lower)]]

\* lines 426-429: the best candidate is rejected, or returned with its score
Accept(best) ==
    IF best.score < AmountThreshold THEN [amount |-> None, conf |-> 0]
    ELSE [amount |-> FloatStr(best.cand[2]), conf |-> Min(best.score, 1000)]

\* lines 418-424
Best(scored) ==
    IF scored = <<>> THEN [amount |-> None, conf |-> 0]
    ELSE Accept(scored[FirstMax([i \in 1..Len(scored) |-> scored[i].score])])

\* extract_amount: [amount, conf], amount a string or None, conf in thousandths
extract_amount(text, html, subject) ==
    Best(Scored(Candidates("html", normalize_html_amounts(html), 1)
                \o Candidates("text", Lower(text), 1),
                Lower(text), Lower(subject)))

(***************************************************************************)
(* Dates and frequencies                                                   *)
(***************************************************************************)
\* the pattern of normalize_broken_dates:
\* \b(jan|...|dec)[a-z]*\s+\d{1,2},\s*\n\s*(\d{4})
BrokenDate ==
    Cat(<<WB, Month, Star(Letter), Plus(Space), Rep(Digit, 1, 2), Lit(","),
          Star(Space), Lit("\n"), Star(Space), Rep(Digit, 4, 4)>>)

\* what the lambda of normalize_broken_dates puts for the match of s from i to e:
\* f"{m.group(1)} {m.group(2)}", group 1 the three letters of the month and
\* group 2 the four digits of the year
BrokenDateRepl(s, i, e) == SubSeq(s, i, i + 2) \o " " \o SubSeq(s, e - 4, e - 1)

RECURSIVE JoinBrokenDates(_, _, _)
\* the re.sub of normalize_broken_dates from position i on; low is s lower-cased
JoinBrokenDates(s, low, i) ==
    LET m == SearchFrom(BrokenDate, low, i)
    IN  IF m = NoMatch THEN From(s, i)
        ELSE SubSeq(s, i, m[1] - 1) \o BrokenDateRepl(s, m[1], m[2])
             \o JoinBrokenDates(s, low, m[2])

normalize_broken_dates(text) ==
    Replace(Replace(Replace(JoinBrokenDates(text, Lower(text), 1), "<br>", " "),
                    "\r\n", " "),
            "\n", " ")

\* any(k in subject for k in RECEIPT_META)
HasReceiptMeta(subject) == ContainsAny(subject, RECEIPT_META)

\* extract_date: [date, conf]
extract_date(text, html, meta_date, subject) ==
    LET clean_html == normalize_broken_dates(html)
        clean_text == normalize_broken_dates(text)
    IN  IF Search(DATE_REGEX, Lower(clean_html))
        THEN [date |-> Group0(DATE_REGEX, clean_html),
              conf |-> Min(600 + (IF HasReceiptMeta(subject) THEN 200 ELSE 0), 1000)]
        ELSE IF Search(DATE_REGEX, Lower(clean_text))
        THEN [date |-> Group0(DATE_REGEX, clean_text), conf |-> 600]
        ELSE IF HasReceiptMeta(subject)
        THEN [date |-> meta_date, conf |-> 500]
        ELSE [date |-> None, conf |-> 0]

\* the regex strptime builds for "%d/%m/%Y"
StrptimeFormat ==
    Cat(<<Alt(<<Cat(<<Lit("3"), Set({"0", "1"})>>),
                Cat(<<Set({"1", "2"}), Digit>>),
                Cat(<<Lit("0"), Set(Digits \ {"0"})>>),
                Set(Digits \ {"0"}),
                Cat(<<Lit(" "), Set(Digits \ {"0"})>>)>>),
          Lit("/"),
          Alt(<<Cat(<<Lit("1"), Set({"0", "1", "2"})>>),
                Cat(<<Lit("0"), Set(Digits \ {"0"})>>),
                Set(Digits \ {"0"})>>),
          Lit("/"),
          Rep(Digit, 4, 4)>>)

IsLeap(y) == y % 4 = 0 /\ (y % 100 # 0 \/ y % 400 = 0)

DaysInMonth(m, y) ==
    IF m = 2 THEN (IF IsLeap(y) THEN 29 ELSE 28)
    ELSE IF m \in {4, 6, 9, 11} THEN 30 ELSE 31

RECURSIVE DaysBeforeMonth(_, _)
DaysBeforeMonth(m, y) ==
    IF m <= 1 THEN 0 ELSE DaysInMonth(m - 1, y) + DaysBeforeMonth(m - 1, y)

\* date.toordinal()
ToOrdinal(d, m, y) ==
    (y - 1) * 365 + ((y - 1) \div 4) - ((y - 1) \div 100) + ((y - 1) \div 400)
    + DaysBeforeMonth(m, y) + d

\* the ValueError of strptime: a string the format does not match, unconverted
\* data, a day the month does not have
ParseError == [ok |-> FALSE, ord |-> 0]

\* datetime.strptime(tok, "%d/%m/%Y"): [ok, ord], ord the ordinal of the date
Strptime(tok) ==
    LET ends == M(StrptimeFormat, tok, 1)
    IN  IF ends = <<>> \/ Head(ends) # Len(tok) + 1 THEN ParseError
        ELSE LET s1 == IndexOf(tok, "/", 1)
                 s2 == IndexOf(tok, "/", s1 + 1)
                 d == ToInt(Strip(SubSeq(tok, 1, s1 - 1)))
                 m == ToInt(SubSeq(tok, s1 + 1, s2 - 1))
                 y == ToInt(From(tok, s2 + 1))
             IN  IF y < 1 \/ d > DaysInMonth(m, y) THEN ParseError
                 ELSE [ok |-> TRUE, ord |-> ToOrdinal(d, m, y)]

Abs(n) == IF n < 0 THEN -n ELSE n

RECURSIVE AnySearch(_, _, _)
\* any(re.search(p, text) for p in patterns[k:])
AnySearch(patterns, text, k) ==
    IF k > Len(patterns) THEN FALSE
    ELSE Search(patterns[k], text) \/ AnySearch(patterns, text, k + 1)

RECURSIVE DirectFrequency(_, _)
\* step 1 of extract_frequency: the first family of FREQ_PATTERNS, from family k
\* on, with a pattern the text matches; None when there is none
DirectFrequency(text, k) ==
    IF k > Len(FREQ_PATTERNS) THEN None
    ELSE IF AnySearch(FREQ_PATTERNS[k][2], text, 1) THEN FREQ_PATTERNS[k][1]
    ELSE DirectFrequency(text, k + 1)

SlashAny(ws) == Cat(<<Lit("/"), Star(Space), Alt([i \in 1..Len(ws) |-> Lit(ws[i])])>>)

\* step 4 of extract_frequency: the frequency the first two date tokens give
IntervalFrequency(date_matches) ==
    LET d1 == Strptime(date_matches[1])
        d2 == Strptime(date_matches[2])
        diff == Abs(d2.ord - d1.ord)
    IN  IF ~d1.ok \/ ~d2.ok THEN [frequency |-> None, conf |-> 0]
        ELSE IF 27 <= diff /\ diff <= 33 THEN [frequency |-> "monthly", conf |-> 750]
        ELSE IF 350 <= diff /\ diff <= 380 THEN [frequency |-> "yearly", conf |-> 750]
        ELSE IF 6 <= diff /\ diff <= 8 THEN [frequency |-> "weekly", conf |-> 750]
        ELSE [frequency |-> None, conf |-> 0]

\* re.findall(r"\b(\d{1,2}[-/]\d{1,2}[-/]\d{2,4})\b", text)
DateTokens(text) ==
    FindAllFrom(WB,
                Cat(<<Rep(Digit, 1, 2), DateSep, Rep(Digit, 1, 2), DateSep,
                      Rep(Digit, 2, 4)>>),
                WB, text, 1)

\* extract_frequency: [frequency, conf]
extract_frequency(raw) ==
    LET text == Lower(raw)
        direct == DirectFrequency(text, 1)
        date_matches == DateTokens(text)
    IN  IF direct # None THEN [frequency |-> direct, conf |-> 900]
        ELSE IF Search(SlashAny(<<"mo", "mon", "month">>), text)
        THEN [frequency |-> "monthly", conf |-> 850]
        ELSE IF Search(SlashAny(<<"yr", "year">>), text)
        THEN [frequency |-> "yearly", conf |-> 850]
        ELSE IF Search(SlashAny(<<"wk">>), text)
        THEN [frequency |-> "weekly", conf |-> 850]
        ELSE IF Contains(text, "renews on") /\ Contains(text, "month")
        THEN [frequency |-> "monthly", conf |-> 700]
        ELSE IF Contains(text, "renews on") /\ Contains(text, "year")
        THEN [frequency |-> "yearly", conf |-> 700]
        ELSE IF Len(date_matches) >= 2 THEN IntervalFrequency(date_matches)
        ELSE [frequency |-> None, conf |-> 0]

(***************************************************************************)
(* Receipt / type classifier and negation confidence                       *)
(***************************************************************************)
ReceiptSubjectKeywords ==
    <<"invoice", "payment", "receipt", "order", "transaction", "confirmed",
      "thank you", "you've made a purchase", "purchase">>

ReceiptBodyKeywords ==
    <<"payment", "transaction", "order", "billed", "charged", "thank", "purchase",
      "purchased">>

PromoWords == <<"offer", "save", "discount", "sale", "cashback">>

\* signal 1 of is_receipt
AmountSignal(a) == IF a.amount # None /\ a.conf >= 400 THEN 2 ELSE 0

\* the score is_receipt accumulates
ReceiptScore(text, html, subject) ==
    LET text_lower == Lower(text)
        subject_lower == Lower(subject)
    IN  AmountSignal(extract_amount(text, html, subject))
        + (IF Search(DATE_REGEX, Lower(html)) \/ Search(DATE_REGEX, text_lower)
           THEN 1 ELSE 0)
        + (IF Search(ID_REGEX, text_lower) THEN 1 ELSE 0)
        + (IF ContainsAny(subject_lower, ReceiptSubjectKeywords) THEN 1 ELSE 0)
        + (IF ContainsAny(text_lower, ReceiptBodyKeywords) THEN 1 ELSE 0)
        - (IF ContainsAny(subject_lower, PromoWords) THEN 1 ELSE 0)
        - (IF ContainsAny(text_lower, PromoWords) THEN 1 ELSE 0)

\* a decision rule that asks for more than 3
is_receipt_above(text, html, subject) == ReceiptScore(text, html, subject) > 3

is_receipt(text, html, subject) == ReceiptScore(text, html, subject) >= 3

classify_type(text, html, subject) ==
    IF ContainsAny(Lower(text), RECURRING_KEYWORDS) THEN "subscription"
    ELSE IF ~is_receipt(text, html, subject) THEN "others"
    ELSE "purchase"

\* receipt_negation_confidence, in thousandths
receipt_negation_confidence(text0, html, subject0) ==
    LET subject == Lower(subject0)
        text == Lower(text0)
        score == (IF ~HasReceiptMeta(subject) THEN 400 ELSE 0)
                 + (IF extract_amount(text, html, subject).amount = None THEN 400 ELSE 0)
                 + (IF ~Search(ID_REGEX, text) THEN 200 ELSE 0)
    IN  Min(score, 1000)

(***************************************************************************)
(* Brand matcher.  A registry is a sequence of entries, in the iteration   *)
(* order of the dict: <<name, data>>, data a function from keys to values  *)
(* (a key the JSON object lacks is outside its domain).  A pattern of the  *)
(* registry is a literal word, possibly parenthesised; one with unbalanced *)
(* parentheses does not compile (re.error).                                *)
(***************************************************************************)
DictGet(d, key, default) == IF key \in DOMAIN d THEN d[key] ELSE default

RECURSIVE ParenDepth(_, _)
\* the nesting depth after reading p, -1 once a ")" closes nothing
ParenDepth(p, depth) ==
    IF depth < 0 \/ Len(p) = 0 THEN depth
    ELSE ParenDepth(From(p, 2),
                    IF At(p, 1) = "(" THEN depth + 1
                    ELSE IF At(p, 1) = ")" THEN depth - 1 ELSE depth)

\* whether re.compile(p) succeeds
Compiles(p) == ParenDepth(p, 0) = 0

\* re.search(p, text, flags=re.IGNORECASE) for a pattern that compiles
PatternMatches(p, text) ==
    Search(Lit(Lower(Replace(Replace(p, "(", ""), ")", ""))), Lower(text))

DefaultWeights == [pattern |-> 50, sender |-> 30, subject |-> 20]

\* the pattern loop of weighted_brand_match: a pattern that raises is skipped
PatternHit(patterns, text) ==
    \E j \in 1..Len(patterns) : Compiles(patterns[j]) /\ PatternMatches(patterns[j], text)

\* the sender and subject loops: any(d.lower() in s for d in ds)
LowerIn(ds, s) == \E j \in 1..Len(ds) : Contains(s, Lower(ds[j]))

\* the score weighted_brand_match gives one brand, in hundredths
BrandScore(data, text, sender, subject) ==
    LET weights == DictGet(data, "score_weights", DefaultWeights)
    IN  (IF PatternHit(DictGet(data, "patterns", <<>>), text)
         THEN DictGet(weights, "pattern", 50) ELSE 0)
        + (IF LowerIn(DictGet(data, "sender_domains", <<>>), Lower(sender))
           THEN DictGet(weights, "sender", 30) ELSE 0)
        + (IF LowerIn(DictGet(data, "subject_contains", <<>>), Lower(subject))
           THEN DictGet(weights, "subject", 20) ELSE 0)

\* the test of line 153: this brand replaces the best one so far
Better(score, priority, best) ==
    score > best.score \/ (score = best.score /\ priority > best.priority)

RECURSIVE BestBrand(_, _, _, _, _, _)
\* the loop of weighted_brand_match from entry k on, best being the best so far
BestBrand(brands, k, best, text, sender, subject) ==
    IF k > Len(brands) THEN best
    ELSE LET data == brands[k][2]
             score == BrandScore(data, text, sender, subject)
             priority == DictGet(data, "priority", 1)
         IN  BestBrand(brands, k + 1,
                       IF Better(score, priority, best)
                       THEN [brand |-> brands[k][1], category |-> data["category"],
                             score |-> score, priority |-> priority]
                       ELSE best,
                       text, sender, subject)

BrandThreshold == 35

\* a threshold test that also rejects a score equal to the threshold
TooWeakInclusive(best_score) == best_score <= BrandThreshold

\* line 162: the match is too weak
TooWeak(best_score) == best_score < BrandThreshold

\* the best brand when the loop of weighted_brand_match ends
Winner(brands, text, sender, subject) ==
    BestBrand(brands, 1,
              [brand |-> None, category |-> "others", score |-> 0, priority |-> -1],
              text, sender, subject)

\* weighted_brand_match over the registry `brands`: [brand, category]
weighted_brand_match(brands, text, sender, subject) ==
    LET best == Winner(brands, text, sender, subject)
    IN  IF TooWeak(best.score) THEN [brand |-> None, category |-> "others"]
        ELSE [brand |-> best.brand, category |-> best.category]

GATEWAYS == {"razorpay", "stripe", "cashfree", "ccavenue", "payu", "paypal", "google_play"}

RECURSIVE MerchantScan(_, _, _, _)
\* the loops of lines 292-298 from pattern j of entry k on: <<"found", k>> at the
\* first pattern of a non-gateway brand that matches, <<"raise", k>> when re.search
\* meets a pattern that does not compile first, <<"none", 0>> when the loops end
MerchantScan(brands, k, j, text) ==
    IF k > Len(brands) THEN <<"none", 0>>
    ELSE IF brands[k][1] \in GATEWAYS THEN MerchantScan(brands, k + 1, 1, text)
    ELSE LET patterns == DictGet(brands[k][2], "patterns", <<>>)
         IN  IF j > Len(patterns) THEN MerchantScan(brands, k + 1, 1, text)
             ELSE IF ~Compiles(patterns[j]) THEN <<"raise", k>>
             ELSE IF PatternMatches(patterns[j], text) THEN <<"found", k>>
             ELSE MerchantScan(brands, k, j + 1, text)

GenericSenderWords == {"mail", "info", "support", "billing", "noreply", "service"}

RECURSIVE LastSegment(_)
\* domain.split(".")[-1]
LastSegment(domain) ==
    LET i == IndexOf(domain, ".", 1)
    IN  IF i = 0 THEN domain ELSE LastSegment(From(domain, i + 1))

extract_brand_from_sender(sender0) ==
    LET sender == Lower(sender0)
        \* @([a-z0-9.-]+)\.(com|in|net|org|co)
        found == FindAllFrom(Lit("@"),
                             Plus(Set(LowerLetters \cup Digits \cup {".", "-"})),
                             Cat(<<Lit("."),
                                   Alt(<<Lit("com"), Lit("in"), Lit("net"), Lit("org"),
                                         Lit("co")>>)>>),
                             sender, 1)
    IN  IF found = <<>> THEN None
        ELSE LET brand == LastSegment(Head(found))
             IN  IF brand \in GenericSenderWords THEN None ELSE brand

TextBlacklist ==
    {"Dear", "Invoice", "Order", "Payment", "Statement", "Receipt", "Thank", "Regards"}

extract_brand_from_text(text) ==
    LET \* \b([A-Z][A-Za-z0-9& ]+)\b
        found == FindAllFrom(WB,
                             Cat(<<Set(UpperLetters),
                                   Plus(Set(UpperLetters \cup LowerLetters \cup Digits
                                            \cup {"&", " "}))>>),
                             WB, text, 1)
        kept == SelectSeq(found, LAMBDA m : Strip(m) \notin TextBlacklist)
    IN  IF kept = <<>> THEN None ELSE Strip(Head(kept))

\* len(s.split()): the number of maximal runs of non-whitespace
WordCount(s) ==
    Cardinality({i \in 1..Len(s) : /\ At(s, i) \notin Whitespace
                                   /\ (i = 1 \/ At(s, i - 1) \in Whitespace)})

\* the alt attributes soup.find_all("img") yields, for img elements written
\* <img alt="...">, in document order
ImgAlts(html) ==
    FindAllFrom(Lit("<img alt=\""), Star(NotSet({"\""})), Lit("\""), html, 1)

extract_brand_from_html(html) ==
    LET alts == SelectSeq(ImgAlts(html),
                          LAMBDA alt : /\ alt # ""
                                       /\ WordCount(Strip(alt)) <= 4
                                       /\ Search(Set(UpperLetters \cup LowerLetters),
                                                 Strip(alt)))
    IN  IF alts = <<>> THEN None ELSE Strip(Head(alts))

\* the truth value Python gives a string or None
Truthy(v) == v # None /\ v # ""

Returned(brand, category, conf) ==
    [raised |-> FALSE, brand |-> brand, category |-> category, conf |-> conf]

Raised == [raised |-> TRUE, brand |-> None, category |-> None, conf |-> 0]

\* lines 317-321
HtmlStep(html_brand) ==
    IF Truthy(html_brand) THEN Returned(html_brand, "others", 70)
    ELSE Returned(None, "others", 0)

\* lines 311-316
TextStep(inferred_brand, html) ==
    IF Truthy(inferred_brand) THEN Returned(inferred_brand, "others", 60)
    ELSE HtmlStep(extract_brand_from_html(html))

\* lines 306-311
SenderStep(sender_brand, text, html, subject) ==
    IF Truthy(sender_brand) THEN Returned(sender_brand, "others", 75)
    ELSE TextStep(extract_brand_from_text(subject \o " " \o text), html)

\* lines 290-302, scan being the outcome of the override loops
OverrideStep(brands, json, scan, text, html, sender, subject) ==
    IF scan[1] = "raise" THEN Raised
    ELSE IF scan[1] = "found"
    THEN Returned(brands[scan[2]][1], brands[scan[2]][2]["category"], 98)
    ELSE IF Truthy(json.brand) THEN Returned(json.brand, json.category, 95)
    ELSE SenderStep(extract_brand_from_sender(sender), text, html, subject)

\* lines 286-298, json being what weighted_brand_match returned
RegistryStep(brands, json, text, html, sender, subject) ==
    OverrideStep(brands, json,
                 IF json.brand \in GATEWAYS THEN MerchantScan(brands, 1, 1, text)
                 ELSE <<"none", 0>>,
                 text, html, sender, subject)

\* detect_brand over the registry `brands`; conf in hundredths; Raised when the
\* re.error of line 296 propagates
detect_brand(brands, text, html, sender, subject) ==
    RegistryStep(brands, weighted_brand_match(brands, text, sender, subject),
                 text, html, sender, subject)

(***************************************************************************)
(* Inputs.  A text is made of fragments of a list, in the order of the     *)
(* list, separated by one space.                                           *)
(***************************************************************************)
RECURSIVE JoinFrom(_, _, _)
\* the fragments frags[k], k in picked and k >= from, joined by " "
JoinFrom(frags, picked, from) ==
    IF from > Len(frags) THEN ""
    ELSE IF from \notin picked THEN JoinFrom(frags, picked, from + 1)
    ELSE LET rest == JoinFrom(frags, picked, from + 1)
         IN  IF rest = "" THEN frags[from] ELSE frags[from] \o " " \o rest

\* the texts made of at most `most` fragments of frags
TextsOf(frags, most) ==
    {JoinFrom(frags, picked, 1) :
        picked \in {S \in SUBSET (1..Len(frags)) : Cardinality(S) <= most}}

\* the sequences of at most `most` distinct elements of the set pool
SeqsOf(pool, most) ==
    UNION {{q \in [1..n -> pool] : \A i, j \in 1..n : i # j => q[i] # q[j]} : n \in 0..most}

\* the orders in which the entries of a sequence can be iterated
Orderings(q) ==
    {[i \in 1..Len(q) |-> q[f[i]]] :
        f \in {g \in [1..Len(q) -> 1..Len(q)] : \A i, j \in 1..Len(q) : i # j => g[i] # g[j]}}

\* no function has been applied yet / the function returned v
Pending == [done |-> FALSE]
Done(v) == [done |-> TRUE, v |-> v]

\* the variables of process_mails while a single function is exercised
PipelineIdle ==
    /\ mails = <<>> /\ idx = 0 /\ pc = "idle" /\ mail = <<>> /\ loc = <<>>
    /\ writes = <<>> /\ output = <<>> /\ written = Pending

NoRegistry == <<>>

(***************************************************************************)
(* SpecBrand: weighted_brand_match and detect_brand on a registry          *)
(***************************************************************************)
MaxBrands == 3

BrandPool ==
    { <<"stripe", [category |-> "payments", patterns |-> <<"stripe">>,
                   sender_domains |-> <<"Stripe.com">>]>>,
      <<"netflix", [category |-> "ott", patterns |-> <<"netflix">>,
                    subject_contains |-> <<"Netflix">>]>>,
      <<"acme", [category |-> "shopping", patterns |-> <<"(acme", "acme">>,
                 priority |-> 2]>>,
      <<"paypal", [category |-> "payments", patterns |-> <<"paypal">>,
                   score_weights |-> [pattern |-> 35, sender |-> 30],
                   sender_domains |-> <<"paypal.com">>, priority |-> 0]>> }

BrandTexts ==
    {"paid via stripe to netflix", "acme order via paypal", "stripe acme", "hello"}

BrandSenders == {"billing@stripe.com", "info@mail.example.org"}

BrandSubjects == {"", "your netflix order"}

BrandHtmls == {"<p>hello</p>", "<img alt=\"Acme Store\">"}

BrandCalls ==
    [fn : {"weighted_brand_match"}, text : BrandTexts, html : {""},
     sender : BrandSenders, subject : BrandSubjects]
    \cup [fn : {"detect_brand"}, text : BrandTexts, html : BrandHtmls,
          sender : BrandSenders, subject : BrandSubjects]

InitBrand ==
    /\ BRANDS \in SeqsOf(BrandPool, MaxBrands)
    /\ call \in BrandCalls
    /\ ret = Pending
    /\ PipelineIdle

WeightedBrandMatch ==
    /\ call.fn = "weighted_brand_match"
    /\ ret = Pending
    /\ ret' = Done(weighted_brand_match(BRANDS, call.text, call.sender, call.subject))
    /\ UNCHANGED <<BRANDS, call, mails, idx, pc, mail, loc, writes, output, written>>

DetectBrand ==
    /\ call.fn = "detect_brand"
    /\ ret = Pending
    /\ ret' = Done(detect_brand(BRANDS, call.text, call.html, call.sender, call.subject))
    /\ UNCHANGED <<BRANDS, call, mails, idx, pc, mail, loc, writes, output, written>>

NextBrand == WeightedBrandMatch \/ DetectBrand

SpecBrand == InitBrand /\ [][NextBrand]_vars

\* the entries of the registry whose patterns hit the text: gateways, and others
PatternHits(brands, text) ==
    {k \in 1..Len(brands) : PatternHit(DictGet(brands[k][2], "patterns", <<>>), text)}

GatewayHits(brands, text) == {k \in PatternHits(brands, text) : brands[k][1] \in GATEWAYS}

MerchantHits(brands, text) ==
    {k \in PatternHits(brands, text) : brands[k][1] \notin GATEWAYS}

\* C1: when the text matches a pattern of a gateway brand and a pattern of a
\* non-gateway brand, detect_brand returns the first matching non-gateway brand of
\* the registry with confidence 0.98, and never a gateway name.
C1_GatewayOverride ==
    (/\ ret.done
     /\ call.fn = "detect_brand"
     /\ GatewayHits(BRANDS, call.text) # {}
     /\ MerchantHits(BRANDS, call.text) # {})
    => (/\ ~ret.v.raised
        /\ ret.v.brand = BRANDS[Least(MerchantHits(BRANDS, call.text))][1]
        /\ ret.v.brand \notin GATEWAYS
        /\ ret.v.conf = 98)

\* the registry with every pattern that does not compile removed
WithoutBadPatterns(brands) ==
    [k \in 1..Len(brands) |->
        <<brands[k][1],
          IF "patterns" \in DOMAIN brands[k][2]
          THEN [brands[k][2] EXCEPT !["patterns"] = SelectSeq(@, Compiles)]
          ELSE brands[k][2]>>]

\* C3: a pattern that fails to compile is never fatal: weighted_brand_match and
\* detect_brand complete without raising and return what they return for the
\* registry with that pattern removed.
C3_BadPatternNotFatal ==
    ret.done =>
        IF call.fn = "weighted_brand_match"
        THEN ret.v = weighted_brand_match(WithoutBadPatterns(BRANDS), call.text,
                                          call.sender, call.subject)
        ELSE /\ ~ret.v.raised
             /\ ret.v = detect_brand(WithoutBadPatterns(BRANDS), call.text, call.html,
                                     call.sender, call.subject)

\* C4: weighted_brand_match returns the same (brand, category) for every iteration
\* order of the same registry entries.
C4_OrderIndependent ==
    (ret.done /\ call.fn = "weighted_brand_match")
    => \A q \in Orderings(BRANDS) :
          weighted_brand_match(q, call.text, call.sender, call.subject) = ret.v

\* the scores of the entries of the registry for the call, and the greatest of
\* them (0 for an empty registry)
ScoreOf(k) == BrandScore(BRANDS[k][2], call.text, call.sender, call.subject)

MaxBrandScore ==
    IF BRANDS = <<>> THEN 0
    ELSE LET k == CHOOSE i \in 1..Len(BRANDS) : \A j \in 1..Len(BRANDS) : ScoreOf(j) <= ScoreOf(i)
         IN  ScoreOf(k)

\* C10: weighted_brand_match returns (absent, "others") if and only if the winning
\* score is below 0.35; a winning score of 0.35 or more returns a brand of that
\* score with its registry category.
C10_Threshold ==
    (ret.done /\ call.fn = "weighted_brand_match")
    => /\ (ret.v = [brand |-> None, category |-> "others"]) <=> (MaxBrandScore < 35)
       /\ MaxBrandScore >= 35 =>
            \E k \in 1..Len(BRANDS) :
                /\ ScoreOf(k) = MaxBrandScore
                /\ ret.v = [brand |-> BRANDS[k][1], category |-> BRANDS[k][2]["category"]]

\* a brand whose score is exactly 0.35 has won and is returned; also reached: a
\* winning score of 0.30, rejected
C10_Witness ==
    /\ ret.done
    /\ call.fn = "weighted_brand_match"
    /\ MaxBrandScore = 35
    /\ ret.v.brand = "paypal"

(***************************************************************************)
(* SpecAmount: extract_amount                                              *)
(***************************************************************************)
MaxParts == 3

AmountFrags ==
    <<"total", "rs 50", "save 50% now", "rs. 1500.0 due", "up 1500.0% today", "$ 9.5">>

AmountHtmls == {"", "<p>\n rs 50\n</p>", "<b>usd</b> <span>7</span> <span>5</span>"}

AmountSubjects == {"", "Your Order"}

InitAmount ==
    /\ BRANDS = NoRegistry
    /\ call \in [fn : {"extract_amount"}, text : TextsOf(AmountFrags, MaxParts),
                 html : AmountHtmls, subject : AmountSubjects]
    /\ ret = Pending
    /\ PipelineIdle

ExtractAmount ==
    /\ call.fn = "extract_amount"
    /\ ret = Pending
    /\ ret' = Done(extract_amount(call.text, call.html, call.subject))
    /\ UNCHANGED <<BRANDS, call, mails, idx, pc, mail, loc, writes, output, written>>

NextAmount == ExtractAmount

SpecAmount == InitAmount /\ [][NextAmount]_vars

\* the amounts that the text shows immediately followed by "%"
PercentAmounts(text_lower) ==
    LET hits == FindAllFrom(Empty, AmountNumber, Lit("%"), text_lower, 1)
    IN  {ToFloat(Replace(hits[i], ",", "")) :
            i \in {j \in 1..Len(hits) : IsDigitStr(RemoveFirst(Replace(hits[j], ",", ""), "."))}}

\* the score the claim gives a candidate
ClaimedAmountScore(cand, text_lower, subject_lower) ==
    (IF cand[1] = "html" THEN 400 ELSE 300)
    + (IF ContainsAny(subject_lower, <<"invoice", "receipt", "order", "payment">>)
       THEN 300 ELSE 0)
    + (IF ContainsAny(text_lower, <<"total", "amount", "paid", "charged", "transaction">>)
       THEN 200 ELSE 0)
    - (IF cand[2] \in PercentAmounts(text_lower) THEN 500 ELSE 0)

\* C6: extract_amount scores every valid candidate 0.4 (HTML) or 0.3 (text), +0.3
\* for a receipt word in the subject, +0.2 for a financial word in the text, -0.5
\* when that amount is immediately followed by "%" in the text; it returns
\* (absent, 0.0) for no candidate or a best score below 0.45, and otherwise the
\* first candidate of the best score with that score, within [0, 1].
C6_AmountScoring ==
    (ret.done /\ call.fn = "extract_amount")
    => LET text_lower == Lower(call.text)
           cands == Candidates("html", normalize_html_amounts(call.html), 1)
                    \o Candidates("text", text_lower, 1)
           scores == [i \in 1..Len(cands) |->
                         ClaimedAmountScore(cands[i], text_lower, Lower(call.subject))]
       IN  IF cands = <<>> \/ scores[FirstMax(scores)] < 450
           THEN ret.v = [amount |-> None, conf |-> 0]
           ELSE /\ ret.v.amount = FloatStr(cands[FirstMax(scores)][2])
                /\ ret.v.conf = scores[FirstMax(scores)]
                /\ 0 <= ret.v.conf /\ ret.v.conf <= 1000

(***************************************************************************)
(* SpecFrequency: extract_frequency                                        *)
(***************************************************************************)
FrequencyFrags ==
    <<"from 01/01/2024", "to 31/01/2024", "till 8/1/2024", "from 01/01/24",
      "to 31/01/24", "on 31/12/2024", "or 30/02/2024", "renews on", "a month">>

InitFrequency ==
    /\ BRANDS = NoRegistry
    /\ call \in [fn : {"extract_frequency"}, text : TextsOf(FrequencyFrags, MaxParts)]
    /\ ret = Pending
    /\ PipelineIdle

ExtractFrequency ==
    /\ call.fn = "extract_frequency"
    /\ ret = Pending
    /\ ret' = Done(extract_frequency(call.text))
    /\ UNCHANGED <<BRANDS, call, mails, idx, pc, mail, loc, writes, output, written>>

NextFrequency == ExtractFrequency

SpecFrequency == InitFrequency /\ [][NextFrequency]_vars

\* a date token written D/M/YY or D/M/YYYY
SlashDate(tok) ==
    LET s1 == IndexOf(tok, "/", 1)
        s2 == IF s1 = 0 THEN 0 ELSE IndexOf(tok, "/", s1 + 1)
    IN  s1 # 0 /\ s2 # 0 /\ Len(tok) - s2 \in {2, 4}

\* a token of that form read as day/month/year (a two-digit year in this
\* century): [ok, ord]
ReadDayMonthYear(tok) ==
    LET s1 == IndexOf(tok, "/", 1)
        s2 == IndexOf(tok, "/", s1 + 1)
        d == ToInt(SubSeq(tok, 1, s1 - 1))
        m == ToInt(SubSeq(tok, s1 + 1, s2 - 1))
        yy == ToInt(From(tok, s2 + 1))
        y == IF Len(tok) - s2 = 2 THEN 2000 + yy ELSE yy
    IN  IF m < 1 \/ m > 12 \/ d < 1 \/ y < 1 \/ d > DaysInMonth(m, y)
        THEN [ok |-> FALSE, ord |-> 0]
        ELSE [ok |-> TRUE, ord |-> ToOrdinal(d, m, y)]

\* no keyword, pricing-shorthand or "renews on" rule of extract_frequency applies
NoFrequencyRule(text) ==
    /\ DirectFrequency(text, 1) = None
    /\ ~Search(SlashAny(<<"mo", "mon", "month", "yr", "year", "wk">>), text)
    /\ ~(Contains(text, "renews on") /\ (Contains(text, "month") \/ Contains(text, "year")))

\* C7: when no other rule applies and the text has at least two date tokens
\* D/M/YY or D/M/YYYY, extract_frequency reads the first two as day/month/year and
\* returns, at confidence 0.75, monthly for a difference of 27 to 33 days, yearly
\* for 350 to 380 and weekly for 6 to 8; otherwise, and for a token that is no
\* valid date, (absent, 0.0).
C7_DateInterval ==
    LET text == Lower(call.text)
        toks == DateTokens(text)
    IN  (/\ ret.done
         /\ call.fn = "extract_frequency"
         /\ NoFrequencyRule(text)
         /\ Len(toks) >= 2
         /\ SlashDate(toks[1]) /\ SlashDate(toks[2]))
        => LET d1 == ReadDayMonthYear(toks[1])
               d2 == ReadDayMonthYear(toks[2])
               diff == Abs(d2.ord - d1.ord)
           IN  ret.v = IF ~d1.ok \/ ~d2.ok THEN [frequency |-> None, conf |-> 0]
                       ELSE IF diff \in 27..33 THEN [frequency |-> "monthly", conf |-> 750]
                       ELSE IF diff \in 350..380 THEN [frequency |-> "yearly", conf |-> 750]
                       ELSE IF diff \in 6..8 THEN [frequency |-> "weekly", conf |-> 750]
                       ELSE [frequency |-> None, conf |-> 0]

(***************************************************************************)
(* SpecClassify: classify_type                                             *)
(***************************************************************************)
ClassifyFrags ==
    <<"your subscription", "total: rs. 1500", "order id 77", "on 12/03/2024",
      "thank you", "big sale">>

ClassifyHtmls == {"", "<p>\n rs. 1500\n</p>"}

ClassifySubjects == {"", "Your Order", "Sale offer"}

InitClassify ==
    /\ BRANDS = NoRegistry
    /\ call \in [fn : {"classify_type"}, text : TextsOf(ClassifyFrags, MaxParts),
                 html : ClassifyHtmls, subject : ClassifySubjects]
    /\ ret = Pending
    /\ PipelineIdle

ClassifyType ==
    /\ call.fn = "classify_type"
    /\ ret = Pending
    /\ ret' = Done(classify_type(call.text, call.html, call.subject))
    /\ UNCHANGED <<BRANDS, call, mails, idx, pc, mail, loc, writes, output, written>>

NextClassify == ClassifyType

SpecClassify == InitClassify /\ [][NextClassify]_vars

\* the receipt score as the claim states it
ClaimedReceiptScore(text, html, subject) ==
    LET a == extract_amount(text, html, subject)
        t == Lower(text)
        sub == Lower(subject)
    IN  (IF a.amount # None /\ a.conf >= 400 THEN 2 ELSE 0)
        + (IF Search(DATE_REGEX, Lower(html)) \/ Search(DATE_REGEX, t) THEN 1 ELSE 0)
        + (IF Search(ID_REGEX, t) THEN 1 ELSE 0)
        + (IF \E k \in {"invoice", "payment", "receipt", "order", "transaction",
                        "confirmed", "thank you", "you've made a purchase", "purchase"} :
                 Contains(sub, k) THEN 1 ELSE 0)
        + (IF \E k \in {"payment", "transaction", "order", "billed", "charged", "thank",
                        "purchase", "purchased"} : Contains(t, k) THEN 1 ELSE 0)
        - (IF \E k \in {"offer", "save", "discount", "sale", "cashback"} : Contains(sub, k)
           THEN 1 ELSE 0)
        - (IF \E k \in {"offer", "save", "discount", "sale", "cashback"} : Contains(t, k)
           THEN 1 ELSE 0)

ClaimedRecurring(text) ==
    \E k \in {"subscription", "renewal", "auto-debit", "recurring", "billing cycle",
              "renews on", "auto-renew"} : Contains(Lower(text), k)

\* C5: classify_type returns "subscription" if and only if the text contains a
\* recurring keyword, whatever the receipt score; otherwise "purchase" exactly when
\* the receipt score is at least 3, and "others" when it is below 3.
C5_ClassifyType ==
    (ret.done /\ call.fn = "classify_type")
    => LET score == ClaimedReceiptScore(call.text, call.html, call.subject)
       IN  /\ (ret.v = "subscription") <=> ClaimedRecurring(call.text)
           /\ ~ClaimedRecurring(call.text) =>
                /\ (ret.v = "purchase") <=> (score >= 3)
                /\ (ret.v = "others") <=> (score < 3)

\* a text with a recurring keyword and a receipt score below 3 was classified
\* "subscription"
C5_Witness ==
    /\ ret.done
    /\ call.fn = "classify_type"
    /\ ClaimedRecurring(call.text)
    /\ ClaimedReceiptScore(call.text, call.html, call.subject) < 3
    /\ ret.v = "subscription"

(***************************************************************************)
(* extract_text_and_html.  A body of the model is a run of elements        *)
(* <x>text</x> and of img elements, possibly cut short inside a tag.       *)
(***************************************************************************)
\* the elements html.parser closes by itself
VoidTags == {"img", "br", "hr"}

TagName(tag) ==
    LET start == IF StartsAt(tag, 2, "/") THEN 3 ELSE 2
    IN  SubSeq(tag, start,
               Least({j \in start..Len(tag) : At(tag, j) \in {" ", ">", "/"}}) - 1)

TagKind(tag) ==
    IF StartsAt(tag, 2, "/") THEN "close"
    ELSE IF Lower(TagName(tag)) \in VoidTags THEN "void"
    ELSE "open"

\* the body is cut short inside a tag
Malformed(body) == \E i \in 1..Len(body) : At(body, i) = "<" /\ IndexOf(body, ">", i) = 0

RECURSIVE HtmlNodes(_, _)
\* the tags and strings the parser hands to the tree builder from position i;
\* a "<" that no ">" follows is character data
HtmlNodes(s, i) ==
    IF i > Len(s) THEN <<>>
    ELSE IF At(s, i) = "<" /\ IndexOf(s, ">", i) # 0
    THEN LET e == IndexOf(s, ">", i)
         IN  <<[kind |-> TagKind(SubSeq(s, i, e)), s |-> SubSeq(s, i, e)]>>
             \o HtmlNodes(s, e + 1)
    ELSE LET e == IndexOf(s, "<", i + 1)
             end == IF e = 0 \/ IndexOf(s, ">", e) = 0 THEN Len(s) ELSE e - 1
         IN  <<[kind |-> "text", s |-> SubSeq(s, i, end)]>> \o HtmlNodes(s, end + 1)

Indent(depth) == SubSeq("                ", 1, depth)

RECURSIVE Pretty(_, _, _)
\* soup.prettify(): a tag or a stripped string per line, indented by its depth
Pretty(nodes, k, depth) ==
    IF k > Len(nodes) THEN ""
    ELSE LET n == nodes[k]
         IN  IF n.kind = "open"
             THEN Indent(depth) \o n.s \o "\n" \o Pretty(nodes, k + 1, depth + 1)
             ELSE IF n.kind = "close"
             THEN Indent(depth - 1) \o n.s \o "\n"
                  \o Pretty(nodes, k + 1, IF depth > 0 THEN depth - 1 ELSE 0)
             ELSE IF n.kind = "void"
             THEN Indent(depth) \o SubSeq(n.s, 1, Len(n.s) - 1) \o "/>\n"
                  \o Pretty(nodes, k + 1, depth)
             ELSE IF Strip(n.s) = "" THEN Pretty(nodes, k + 1, depth)
             ELSE Indent(depth) \o Replace(Strip(n.s), "<", "&lt;") \o "\n"
                  \o Pretty(nodes, k + 1, depth)

RECURSIVE JoinStrings(_, _)
JoinStrings(q, sep) ==
    IF q = <<>> THEN ""
    ELSE IF Len(q) = 1 THEN q[1]
    ELSE q[1] \o sep \o JoinStrings(Tail(q), sep)

\* soup.get_text(separator=" ", strip=True)
GetText(nodes) ==
    LET strings == SelectSeq(nodes, LAMBDA n : n.kind = "text" /\ Strip(n.s) # "")
    IN  JoinStrings([k \in 1..Len(strings) |-> Strip(strings[k].s)], " ")

\* the try branch of extract_text_and_html
ParsedViews(body) ==
    [html |-> Lower(Pretty(HtmlNodes(body, 1), 1, 0)),
     text |-> Lower(GetText(HtmlNodes(body, 1)))]

\* the except branch
FallbackViews(body) == [html |-> Lower(body), text |-> Lower(body)]

\* extract_text_and_html on a string: a body cut short is repaired by the parser
\* or rejected by it, depending on the parser of the build
extract_text_and_html(body) ==
    {ParsedViews(body)} \cup (IF Malformed(body) THEN {FallbackViews(body)} ELSE {})

(***************************************************************************)
(* Spec: process_mails.  A mail is a function from its keys to values; a   *)
(* JSON null is None.  pc is the statement process_mails is at; "raised"   *)
(* is an exception leaving process_mails.                                  *)
(***************************************************************************)
MaxMails == 2

Put(d, key, value) == [x \in DOMAIN d \cup {key} |-> IF x = key THEN value ELSE d[x]]

Meta(from, subject, date) == [from |-> from, subject |-> subject, date |-> date]

MailPool ==
    { [metadata |-> Meta("Billing@Shop.in", "Your Order", "Tue, 5 Mar 2024"),
       body |-> "<p>Total: Rs. 1500</p><p>Order ID 77 on 12/03/2024</p>"],
      [metadata |-> Meta("info@netflix.com", "Netflix renewal", "Fri, 2 Feb 2024"),
       body |-> "<p>Your subscription Rs 199/month</p><p>from 01/02/2024</p>"],
      [metadata |-> Meta("info@netflix.com", "Netflix renewal", "Fri, 2 Feb 2024"),
       body |-> "<p>Your subscription Rs 199</p><p>from 01/02/2024</p>"],
      [metadata |-> [from |-> "news@shop.in", subject |-> "Sale offer"],
       body |-> "<p>Big sale</p><img alt=\"Shop\">"],
      [metadata |-> Meta("Billing@Shop.in", "Your Order", "Tue, 5 Mar 2024"),
       body |-> "<p>Total: Rs. 1500</p><b"],
      [body |-> "<p>Total: Rs. 1500</p>"],
      [metadata |-> Meta("Billing@Shop.in", "Your Order", "Tue, 5 Mar 2024")],
      [metadata |-> Meta("Billing@Shop.in", "Your Order", "Tue, 5 Mar 2024"),
       body |-> None] }

PipelineRegistry ==
    << <<"stripe", [category |-> "payments", patterns |-> <<"stripe">>,
                    sender_domains |-> <<"Stripe.com">>]>>,
       <<"netflix", [category |-> "ott", patterns |-> <<"netflix">>,
                     subject_contains |-> <<"Netflix">>]>> >>

Init ==
    /\ BRANDS = PipelineRegistry
    /\ call = [fn |-> "process_mails"]
    /\ ret = Pending
    /\ mails \in SeqsOf(MailPool, MaxMails)
    /\ idx = 0
    /\ pc = "for"
    /\ mail = <<>>
    /\ loc = <<>>
    /\ writes = <<>>
    /\ output = <<>>
    /\ written = Pending

RECURSIVE PutAll(_, _)
\* the writes  d[key] = value  of a sequence of <<key, value>>, in order
PutAll(d, kvs) == IF kvs = <<>> THEN d ELSE PutAll(Put(d, kvs[1][1], kvs[1][2]), Tail(kvs))

\* the record of those writes: which mail of the batch, which key
Logged(i, kvs) == [k \in 1..Len(kvs) |-> [mail |-> i, key |-> kvs[k][1]]]

\* line 623: the next mail of the batch, or the end of the loop
ForMail ==
    /\ pc = "for"
    /\ IF idx < Len(mails)
       THEN /\ idx' = idx + 1
            /\ mail' = mails[idx + 1]
            /\ pc' = "metadata"
       ELSE /\ pc' = "dump"
            /\ UNCHANGED <<idx, mail>>
    /\ UNCHANGED <<BRANDS, call, ret, mails, loc, writes, output, written>>

\* lines 625-627: mail["metadata"] raises KeyError without the key, and .lower()
\* raises AttributeError on a null field
ReadMetadata ==
    /\ pc = "metadata"
    /\ IF "metadata" \notin DOMAIN mail
       THEN pc' = "raised" /\ UNCHANGED loc
       ELSE LET metadata == mail["metadata"]
            IN  IF \/ DictGet(metadata, "from", "") = None
                   \/ DictGet(metadata, "subject", "") = None
                THEN pc' = "raised" /\ UNCHANGED loc
                ELSE /\ loc' = PutAll(loc,
                                 << <<"sender", Lower(DictGet(metadata, "from", ""))>>,
                                    <<"subject", Lower(DictGet(metadata, "subject", ""))>>,
                                    <<"meta_date", DictGet(metadata, "date", "")>> >>)
                     /\ pc' = "views"
    /\ UNCHANGED <<BRANDS, call, ret, mails, idx, mail, writes, output, written>>

\* line 629: on a null body the parser raises and the handler's html.lower()
\* raises in turn
ExtractViews ==
    /\ pc = "views"
    /\ LET body == DictGet(mail, "body", "")
       IN  IF body = None
           THEN pc' = "raised" /\ UNCHANGED loc
           ELSE /\ \E views \in extract_text_and_html(body) :
                      loc' = PutAll(loc, << <<"html", views.html>>, <<"text", views.text>> >>)
                /\ pc' = "raw"
    /\ UNCHANGED <<BRANDS, call, ret, mails, idx, mail, writes, output, written>>

\* lines 632-634: mail["body"] raises KeyError without the key
ReadRawHtml ==
    /\ pc = "raw"
    /\ IF "body" \notin DOMAIN mail
       THEN pc' = "raised" /\ UNCHANGED loc
       ELSE /\ loc' = Put(loc, "raw_html", mail["body"])
            /\ pc' = "brand"
    /\ UNCHANGED <<BRANDS, call, ret, mails, idx, mail, writes, output, written>>

\* the locals after line 636: the triple detect_brand returned, or the exception
\* it raised
BrandLocals(l, r) ==
    IF r.raised THEN Put(l, "exception", "re.error")
    ELSE PutAll(l, << <<"brand", r.brand>>, <<"category", r.category>>,
                      <<"brand_confidence", r.conf>> >>)

\* line 636
CallDetectBrand ==
    /\ pc = "brand"
    /\ loc' = BrandLocals(loc, detect_brand(BRANDS, loc["text"], loc["raw_html"],
                                            loc["sender"], loc["subject"]))
    /\ pc' = IF "exception" \in DOMAIN loc' THEN "raised" ELSE "type"
    /\ UNCHANGED <<BRANDS, call, ret, mails, idx, mail, writes, output, written>>

\* line 639
CallClassifyType ==
    /\ pc = "type"
    /\ loc' = Put(loc, "mail_type", classify_type(loc["text"], loc["html"], loc["subject"]))
    /\ pc' = "annotate"
    /\ UNCHANGED <<BRANDS, call, ret, mails, idx, mail, writes, output, written>>

\* lines 641-646
BaseFields(l) ==
    << <<"brand", l["brand"]>>, <<"category", l["category"]>>, <<"type", l["mail_type"]>>,
       <<"overall_confidence", 0>> >>

Annotate ==
    /\ pc = "annotate"
    /\ mail' = PutAll(mail, BaseFields(loc))
    /\ writes' = writes \o Logged(idx, BaseFields(loc))
    /\ pc' = "branch"
    /\ UNCHANGED <<BRANDS, call, ret, mails, idx, loc, output, written>>

\* lines 648-651
OthersFields(l) ==
    << <<"overall_confidence",
         receipt_negation_confidence(l["text"], l["html"], l["subject"])>> >>

Others ==
    /\ pc = "branch"
    /\ loc["mail_type"] = "others"
    /\ mail' = PutAll(mail, OthersFields(loc))
    /\ writes' = writes \o Logged(idx, OthersFields(loc))
    /\ output' = Append(output, mail')
    /\ pc' = "for"
    /\ UNCHANGED <<BRANDS, call, ret, mails, idx, loc, written>>

\* lines 657-658
AmountFields(amount) ==
    << <<"amount", amount.amount>>, <<"amount_confidence", amount.conf>> >>

\* lines 654-658
ExtractFields ==
    /\ pc = "branch"
    /\ loc["mail_type"] # "others"
    /\ loc' = PutAll(loc,
                     << <<"amount", extract_amount(loc["text"], loc["html"], loc["subject"])>>,
                        <<"date", extract_date(loc["text"], loc["html"], loc["meta_date"],
                                               loc["subject"])>> >>)
    /\ mail' = PutAll(mail, AmountFields(loc'["amount"]))
    /\ writes' = writes \o Logged(idx, AmountFields(loc'["amount"]))
    /\ pc' = "dates"
    /\ UNCHANGED <<BRANDS, call, ret, mails, idx, output, written>>

\* lines 661-662
PurchaseFields(date) ==
    << <<"date", date.date>>, <<"date_confidence", date.conf>> >>

\* lines 660-662
WritePurchase ==
    /\ pc = "dates"
    /\ loc["mail_type"] = "purchase"
    /\ mail' = PutAll(mail, PurchaseFields(loc["date"]))
    /\ writes' = writes \o Logged(idx, PurchaseFields(loc["date"]))
    /\ pc' = "overall"
    /\ UNCHANGED <<BRANDS, call, ret, mails, idx, loc, output, written>>

\* a field list that keeps the purchase keys as well
SubscriptionFieldsAndDate(date, freq) ==
    << <<"date", date.date>>, <<"date_confidence", date.conf>>,
       <<"start_date", date.date>>, <<"start_date_confidence", date.conf>>,
       <<"frequency", freq.frequency>>, <<"frequency_confidence", freq.conf>> >>

\* lines 666-669
SubscriptionFields(date, freq) ==
    << <<"start_date", date.date>>, <<"start_date_confidence", date.conf>>,
       <<"frequency", freq.frequency>>, <<"frequency_confidence", freq.conf>> >>

\* lines 664-669
WriteSubscription ==
    /\ pc = "dates"
    /\ loc["mail_type"] = "subscription"
    /\ loc' = Put(loc, "freq", extract_frequency(loc["text"]))
    /\ mail' = PutAll(mail, SubscriptionFields(loc["date"], loc'["freq"]))
    /\ writes' = writes \o Logged(idx, SubscriptionFields(loc["date"], loc'["freq"]))
    /\ pc' = "overall"
    /\ UNCHANGED <<BRANDS, call, ret, mails, idx, output, written>>

\* a list of confidences that counts the frequency confidence too
conf_values_with_frequency(l) ==
    <<l["amount"].conf, l["date"].conf, DictGet(l, "freq", [conf |-> 0]).conf>>

\* line 672
conf_values(l) == <<l["amount"].conf, l["date"].conf>>

RECURSIVE Sum(_)
Sum(q) == IF q = <<>> THEN 0 ELSE Head(q) + Sum(Tail(q))

\* line 673, in thousandths: the sums of the confidences the functions return
\* divide without a remainder beyond the third decimal
OverallFields(l) ==
    << <<"overall_confidence", Sum(conf_values(l)) \div Len(conf_values(l))>> >>

\* lines 672-675
WriteOverall ==
    /\ pc = "overall"
    /\ mail' = PutAll(mail, OverallFields(loc))
    /\ writes' = writes \o Logged(idx, OverallFields(loc))
    /\ output' = Append(output, mail')
    /\ pc' = "for"
    /\ UNCHANGED <<BRANDS, call, ret, mails, idx, loc, written>>

\* lines 677-682: the batch is persisted and returned
Dump ==
    /\ pc = "dump"
    /\ written' = Done(output)
    /\ ret' = Done(output)
    /\ pc' = "done"
    /\ UNCHANGED <<BRANDS, call, mails, idx, mail, loc, writes, output>>

Next ==
    \/ ForMail
    \/ ReadMetadata
    \/ ExtractViews
    \/ ReadRawHtml
    \/ CallDetectBrand
    \/ CallClassifyType
    \/ Annotate
    \/ Others
    \/ ExtractFields
    \/ WritePurchase
    \/ WriteSubscription
    \/ WriteOverall
    \/ Dump

Spec == Init /\ [][Next]_vars

\* a mail whose metadata and body fields have the shape process_mails reads
Shaped(m) ==
    /\ "metadata" \in DOMAIN m
    /\ "body" \in DOMAIN m
    /\ m["body"] # None
    /\ DictGet(m["metadata"], "from", "") # None
    /\ DictGet(m["metadata"], "subject", "") # None

\* rec is the record of the input mail m
RecordOf(rec, m) == DOMAIN m \subseteq DOMAIN rec /\ \A k \in DOMAIN m : rec[k] = m[k]

\* C2: one malformed mail never aborts a batch: when process_mails has ended,
\* the batch has been persisted and holds a record for every mail of the input
\* whose metadata and body fields are well shaped, whatever the other mails are.
C2_BatchSurvives ==
    pc \in {"done", "raised"}
    => /\ written.done
       /\ \A i \in 1..Len(mails) :
              Shaped(mails[i])
              => \E j \in 1..Len(written.v) : RecordOf(written.v[j], mails[i])

\* the keys process_mails wrote into the mail at position j of the batch
Added(j) == {writes[k].key : k \in {n \in 1..Len(writes) : writes[n].mail = j}}

OthersKeys == {"brand", "category", "type", "overall_confidence"}

PurchaseKeys ==
    OthersKeys \cup {"amount", "amount_confidence", "date", "date_confidence"}

SubscriptionKeys ==
    OthersKeys \cup {"amount", "amount_confidence", "start_date", "start_date_confidence",
                     "frequency", "frequency_confidence"}

\* C8: the fields the pipeline adds to an output record depend only on its type:
\* exactly brand, category, type and overall_confidence for "others"; those and
\* amount, amount_confidence, date, date_confidence for "purchase"; those and
\* amount, amount_confidence, start_date, start_date_confidence, frequency,
\* frequency_confidence (no date, no date_confidence) for "subscription".
C8_FieldsByType ==
    \A j \in 1..Len(output) :
        /\ DOMAIN output[j] = DOMAIN mails[j] \cup Added(j)
        /\ output[j]["type"] \in {"others", "purchase", "subscription"}
        /\ output[j]["type"] = "others" => Added(j) = OthersKeys
        /\ output[j]["type"] = "purchase" => Added(j) = PurchaseKeys
        /\ output[j]["type"] = "subscription" => Added(j) = SubscriptionKeys

\* a persisted batch with a purchase record and a subscription record
C8_Witness ==
    /\ pc = "done"
    /\ \E i, j \in 1..Len(output) :
           output[i]["type"] = "purchase" /\ output[j]["type"] = "subscription"

\* the confidence of the date field of a purchase or subscription record
DateConfidence(rec) ==
    IF rec["type"] = "purchase" THEN rec["date_confidence"]
    ELSE rec["start_date_confidence"]

\* C9: overall_confidence of every output record lies in [0, 1]; for "others" it
\* is the negation confidence of the mail; for "purchase" and "subscription" it
\* is the mean of amount_confidence and the date (start_date) confidence, so that
\* subscription records that agree on these two have the same overall_confidence.
C9_OverallConfidence ==
    /\ \A j \in 1..Len(output) :
           /\ output[j]["overall_confidence"] \in 0..1000
           /\ output[j]["type"] # "others"
              => 2 * output[j]["overall_confidence"]
                 = output[j]["amount_confidence"] + DateConfidence(output[j])
    /\ (pc = "for" /\ idx >= 1 /\ Len(output) = idx /\ output[idx]["type"] = "others")
       => output[idx]["overall_confidence"]
          = receipt_negation_confidence(loc["text"], loc["html"], loc["subject"])
    /\ \A i, j \in 1..Len(output) :
           (/\ output[i]["type"] = "subscription" /\ output[j]["type"] = "subscription"
            /\ output[i]["amount_confidence"] = output[j]["amount_confidence"]
            /\ output[i]["start_date_confidence"] = output[j]["start_date_confidence"])
           => output[i]["overall_confidence"] = output[j]["overall_confidence"]

\* two subscription records of a persisted batch that differ in
\* frequency_confidence and have the same, positive, overall_confidence
C9_Witness ==
    /\ pc = "done"
    /\ \E i, j \in 1..Len(output) :
           /\ output[i]["type"] = "subscription" /\ output[j]["type"] = "subscription"
           /\ output[i]["frequency_confidence"] # output[j]["frequency_confidence"]
           /\ output[i]["overall_confidence"] = output[j]["overall_confidence"]
           /\ output[i]["overall_confidence"] > 0

\* the place of a derived field in the order brand, type, amount,
\* date/frequency, overall confidence
FieldRank(key) ==
    IF key \in {"brand", "category"} THEN 1
    ELSE IF key = "type" THEN 2
    ELSE IF key \in {"amount", "amount_confidence"} THEN 3
    ELSE IF key = "overall_confidence" THEN 5
    ELSE 4

\* the assignments process_mails made to the mail at position j, in order
WritesOf(j) == SelectSeq(writes, LAMBDA w : w.mail = j)

\* C11: while a mail is processed every derived field of its record is written
\* exactly once, and the writes come in the order brand, type, amount,
\* date/frequency, overall confidence.
C11_WrittenOnce ==
    \A j \in 1..Len(mails) :
        \A a, b \in 1..Len(WritesOf(j)) :
            a < b => /\ WritesOf(j)[a].key # WritesOf(j)[b].key
                     /\ FieldRank(WritesOf(j)[a].key) <= FieldRank(WritesOf(j)[b].key)

(***************************************************************************)
(* SpecNormalize: normalize_broken_dates                                   *)
(***************************************************************************)
NormalizeFrags ==
    <<"paid on Nov 14,\n2025", "due December 3,\r\n2024", "<br>thanks", "line one\nline two",
      "Jan 5, 2023", "invoice Mar 9, \n 2022 sent", "no date">>

InitNormalize ==
    /\ BRANDS = NoRegistry
    /\ call \in [fn : {"normalize_broken_dates"}, text : TextsOf(NormalizeFrags, MaxParts)]
    /\ ret = Pending
    /\ PipelineIdle

NormalizeBrokenDates ==
    /\ call.fn = "normalize_broken_dates"
    /\ ret = Pending
    /\ ret' = Done(normalize_broken_dates(call.text))
    /\ UNCHANGED <<BRANDS, call, mails, idx, pc, mail, loc, writes, output, written>>

NextNormalize == NormalizeBrokenDates

SpecNormalize == InitNormalize /\ [][NextNormalize]_vars

\* a month and day followed by a line break and a year, from i to e, as one
\* date: the text up to its comma, a space, the four digits of the year
Rejoined(s, i, e) == SubSeq(s, i, IndexOf(s, ",", i)) \o " " \o SubSeq(s, e - 4, e - 1)

RECURSIVE RejoinDates(_, _, _)
\* s from position i on with every such month, day and year rejoined
RejoinDates(s, low, i) ==
    LET m == SearchFrom(BrokenDate, low, i)
    IN  IF m = NoMatch THEN From(s, i)
        ELSE SubSeq(s, i, m[1] - 1) \o Rejoined(s, m[1], m[2]) \o RejoinDates(s, low, m[2])

\* C12: normalize_broken_dates turns every month and day that a line break
\* separates from a 4-digit year into one contiguous date that keeps the month,
\* the day and the year, and replaces every remaining "<br>", CRLF or LF by a
\* single space.
C12_DatesRejoined ==
    (ret.done /\ call.fn = "normalize_broken_dates")
    => ret.v = Replace(Replace(Replace(RejoinDates(call.text, Lower(call.text), 1),
                                       "<br>", " "),
                               "\r\n", " "),
                       "\n", " ")

====
